---------------------------- MODULE Spec2Model ----------------------------
(***************************************************************************)
(* A model of exhaustigen's Gen (src/src/lib.rs): the backtracking         *)
(* odometer made of done and gen, the combinators built on gen, and the    *)
(* `while !gen.done() { ... }` loop that drives them.                      *)
(*                                                                         *)
(* Indices: Rust vectors are 0-based, TLA+ sequences 1-based.  The cursor  *)
(* p and every index stored in the model keep the Rust value; the frame    *)
(* at Rust index i is v[i + 1], the element at Rust index k is             *)
(* input[k + 1].  A frame is the pair <<.0, .1>> = <<current, bound>>.     *)
(***************************************************************************)
EXTENDS Integers, Sequences, FiniteSets, TLC

VARIABLES
    started,    \* Gen.started
    v,          \* Gen.v : Vec<(usize, usize)>
    p,          \* Gen.p
    last,       \* the most recent call on the Gen and what it returned
    pc,         \* where the driving code stands
    test,       \* the test body wrapped by the loop (fixed during a behaviour)
    loc,        \* the locals of the run in progress (iterator state)
    vals,       \* the values gen returned in the run in progress, in call order
    runs        \* one record per finished run, in order

vars == <<started, v, p, last, pc, test, loc, vals, runs>>

-----------------------------------------------------------------------------
(* Bounds of the model. *)

\* the largest bound a free-standing gen call is given
MaxBound == 2
\* the largest number of gen calls between two done calls
MaxDepth == 3

-----------------------------------------------------------------------------
(* The locals of a run: the iterator a combinator returned and the Vec the *)
(* body collects it into.  n is the count left in Take, i the start of the *)
(* Range, idxs gen_perm's working list, out the Vec collected so far,      *)
(* panic the message of the panic that ended the thread, if any.           *)

NoPanic == ""

Locals == [n |-> 0, i |-> 0, idxs |-> <<>>, out |-> <<>>, panic |-> NoPanic]

-----------------------------------------------------------------------------
(* Gen::new *)

new_started == FALSE
new_v == <<>>
new_p == 0

NoCall == [op |-> "new"]

-----------------------------------------------------------------------------
(* Gen::done *)

\* the Rust indices i with self.v[i].0 < self.v[i].1
Incomplete(path) == {i \in 0..(Len(path) - 1) : path[i + 1][1] < path[i + 1][2]}

Max(S) == CHOOSE x \in S : \A y \in S : y <= x

Min(S) == CHOOSE x \in S : \A y \in S : x <= y

\* mutant of done_index: the scan runs forward and stops at the leftmost
\* incomplete frame
done_index_forward(path) == Min(Incomplete(path))

\* `for i in (0..self.v.len()).rev()`: the first index the scan stops at
done_index(path) == Max(Incomplete(path))

\* mutant of done_advance: truncates without incrementing
done_advance_truncate_only(path, i) == SubSeq(path, 1, i + 1)

\* mutant of done_advance: increments without truncating
done_advance_no_truncate(path, i) == [path EXCEPT ![i + 1][1] = @ + 1]

\* self.v[i].0 += 1; self.v.truncate(i + 1)
done_advance(path, i) == [SubSeq(path, 1, i + 1) EXCEPT ![i + 1][1] = @ + 1]

\* the value done returns in a state
done_ret(st, path) == IF ~st THEN FALSE ELSE Incomplete(path) = {}

done_started(st) == TRUE

\* mutant of done_v: a terminal call clears the path
done_v_clear(st, path) ==
    IF ~st THEN path
    ELSE IF Incomplete(path) # {} THEN done_advance(path, done_index(path))
    ELSE <<>>

done_v(st, path) ==
    IF ~st THEN path
    ELSE IF Incomplete(path) # {} THEN done_advance(path, done_index(path))
    ELSE path

\* mutant of done_p: the first call resets the cursor as later calls do
done_p_reset(st, path, cursor) ==
    IF ~st THEN 0
    ELSE IF Incomplete(path) # {} THEN 0
    ELSE cursor

\* mutant of done_p: the cursor is never reset
done_p_keep(st, path, cursor) == cursor

done_p(st, path, cursor) ==
    IF ~st THEN cursor
    ELSE IF Incomplete(path) # {} THEN 0
    ELSE cursor

Done ==
    /\ started' = done_started(started)
    /\ v' = done_v(started, v)
    /\ p' = done_p(started, v, p)
    /\ last' = [op |-> "done", r |-> done_ret(started, v)]

-----------------------------------------------------------------------------
(* Gen::gen *)

\* mutant of gen_push: a fresh frame starts at 1
gen_push_one(path, cursor) ==
    IF cursor = Len(path) THEN Append(path, <<1, 0>>) ELSE path

\* if self.p == self.v.len() { self.v.push((0, 0)); }
gen_push(path, cursor) ==
    IF cursor = Len(path) THEN Append(path, <<0, 0>>) ELSE path

\* self.p += 1
gen_p(cursor) == cursor + 1

\* mutant of gen_v: the frame is rewritten whole, its current reset to 0
gen_v_reset(path, cursor, bound) ==
    [gen_push(path, cursor) EXCEPT ![gen_p(cursor)] = <<0, bound>>]

\* self.v[self.p - 1].1 = bound
gen_v(path, cursor, bound) ==
    [gen_push(path, cursor) EXCEPT ![gen_p(cursor)][2] = bound]

\* self.v[self.p - 1].0
gen_ret(path, cursor, bound) == gen_v(path, cursor, bound)[gen_p(cursor)][1]

Gen(bound) ==
    /\ p <= Len(v)
    /\ v' = gen_v(v, p, bound)
    /\ p' = gen_p(p)
    /\ last' = [op |-> "gen", bound |-> bound, r |-> gen_ret(v, p, bound)]
    /\ UNCHANGED started

-----------------------------------------------------------------------------
(* Any sequence of done and gen calls on a fresh Gen. *)

Idle == [kind |-> "api"]

Init ==
    /\ started = new_started
    /\ v = new_v
    /\ p = new_p
    /\ last = NoCall
    /\ pc = "api"
    /\ test = Idle
    /\ loc = Locals
    /\ vals = <<>>
    /\ runs = <<>>

CallDone ==
    /\ Done
    /\ UNCHANGED <<pc, test, loc, vals, runs>>

CallGen ==
    /\ p < MaxDepth
    /\ \E bound \in 0..MaxBound : Gen(bound)
    /\ UNCHANGED <<pc, test, loc, vals, runs>>

Next == CallDone \/ CallGen

Spec == Init /\ [][Next]_vars


-----------------------------------------------------------------------------
(* The enumeration loop of the tests (lib.rs 166-172):                     *)
(*     let mut gen = Gen::new();                                           *)
(*     while !gen.done() { <body>; i += 1; }                               *)
(* pc = "head": about to evaluate `!gen.done()`; "body": inside the body;   *)
(* "iter": the body is draining the iterator a combinator returned;        *)
(* "finished": done returned true; "panicked": the thread panicked.        *)

LoopInit(tests) ==
    /\ started = new_started
    /\ v = new_v
    /\ p = new_p
    /\ last = NoCall
    /\ pc = "head"
    /\ test \in tests
    /\ loc = Locals
    /\ vals = <<>>
    /\ runs = <<>>

\* `while !gen.done()`: enter the body, or leave the loop
LoopDone ==
    /\ pc = "head"
    /\ Done
    /\ pc' = IF last'.r THEN "finished" ELSE "body"
    /\ vals' = <<>>
    /\ loc' = Locals
    /\ UNCHANGED <<test, runs>>

\* the end of the body: `i += 1`, here the record of the run
RunEnd(out) ==
    /\ runs' = Append(runs, [vals |-> vals, out |-> out])
    /\ pc' = "head"
    /\ UNCHANGED <<started, v, p, last, test, loc, vals>>

-----------------------------------------------------------------------------
(* Deterministic test bodies: the bound of each gen call, or the end of    *)
(* the run, is a function of the values gen returned earlier in the run.   *)
(* A body is a sequence of rules, one per call position; a rule maps the   *)
(* values vs returned so far in the run to a bound or to Stop.             *)

\* a sentinel for `no bound`: the body ends the run, or no gen call was made
Stop == 0 - 1

RuleNames == {"stop", "zero", "max", "prev", "dec", "sum"}

RECURSIVE Sum(_)
Sum(vs) == IF vs = <<>> THEN 0 ELSE vs[1] + Sum(Tail(vs))

\* the value of the previous call (MaxBound before the first call)
Prev(vs) == IF vs = <<>> THEN MaxBound ELSE vs[Len(vs)]

Rule(name, vs) ==
    CASE name = "stop" -> Stop
      [] name = "zero" -> 0
      [] name = "max"  -> MaxBound
      [] name = "prev" -> Prev(vs)
      [] name = "dec"  -> IF Prev(vs) = 0 THEN Stop ELSE Prev(vs) - 1
      [] name = "sum"  -> Sum(vs) % (MaxBound + 1)

RuleBodies == {[kind |-> "rules", rules |-> rs] : rs \in [1..MaxDepth -> RuleNames]}

\* what the body does after receiving the values vs: a bound, or Stop
BodyBound(t, vs) ==
    IF Len(vs) >= Len(t.rules) THEN Stop ELSE Rule(t.rules[Len(vs) + 1], vs)

\* the root-to-leaf paths of the body's choice tree below the prefix vs
RECURSIVE Leaves(_, _)
Leaves(t, vs) ==
    IF BodyBound(t, vs) = Stop THEN {vs}
    ELSE UNION {Leaves(t, Append(vs, x)) : x \in 0..BodyBound(t, vs)}

BodyGen ==
    /\ pc = "body"
    /\ test.kind = "rules"
    /\ BodyBound(test, vals) # Stop
    /\ Gen(BodyBound(test, vals))
    /\ vals' = Append(vals, last'.r)
    /\ UNCHANGED <<pc, test, loc, runs>>

BodyEnd ==
    /\ pc = "body"
    /\ test.kind = "rules"
    /\ BodyBound(test, vals) = Stop
    /\ RunEnd(vals)

NextBody == LoopDone \/ BodyGen \/ BodyEnd

SpecBody == LoopInit(RuleBodies) /\ [][NextBody]_vars

-----------------------------------------------------------------------------
(* Arbitrary test bodies: at most MaxDepth gen calls per run, each with a  *)
(* bound of at most MaxBound, chosen freely at every call (the body need   *)
(* not be deterministic).  The thread keeps running, so a step that can be *)
(* taken is taken: weak fairness of the next-state relation.               *)

AnyBody == [kind |-> "any"]

AnyGen ==
    /\ pc = "body"
    /\ test.kind = "any"
    /\ Len(vals) < MaxDepth
    /\ \E bound \in 0..MaxBound : Gen(bound)
    /\ vals' = Append(vals, last'.r)
    /\ UNCHANGED <<pc, test, loc, runs>>

AnyEnd ==
    /\ pc = "body"
    /\ test.kind = "any"
    /\ pc' = "head"
    /\ UNCHANGED <<started, v, p, last, test, loc, vals, runs>>

NextAny == LoopDone \/ AnyGen \/ AnyEnd

SpecAny == LoopInit({AnyBody}) /\ [][NextAny]_vars /\ WF_vars(NextAny)

-----------------------------------------------------------------------------
(* usize arithmetic.  `x - 1` on usize panics when overflow checks are on  *)
(* (debug builds) and wraps when they are off (release builds); which one  *)
(* is a property of the build, so an underflow has both outcomes.  The     *)
(* word is UsizeBits wide: 16, the narrowest usize Rust has; on a wider    *)
(* target only the wrapped value 2^UsizeBits - 1 differs.                  *)

UsizeBits == 16

UsizeMax == 2 ^ UsizeBits - 1

wrapping_sub1(n) == (n - 1) % (UsizeMax + 1)

SubOverflow == "attempt to subtract with overflow"
IndexOutOfBounds == "index out of bounds"
RemoveOutOfBounds == "removal index should be < len"

-----------------------------------------------------------------------------
(* Gen::flip and Gen::pick.  An element reference &input[k] is modelled by *)
(* its Rust index k; Deref gives the elements referred to.                 *)

\* mutant of flip_ret: the comparison is inverted
flip_ret_inverted(path, cursor) == gen_ret(path, cursor, 1) = 0

\* self.gen(1) == 1
flip_ret(path, cursor) == gen_ret(path, cursor, 1) = 1

\* mutant of pick: the index is not checked against the length of input
pick_unchecked(path, cursor, input) ==
    LET bound == wrapping_sub1(Len(input))
    IN  {[v |-> gen_v(path, cursor, bound), p |-> gen_p(cursor),
          bound |-> bound, r |-> gen_ret(path, cursor, bound),
          panic |-> NoPanic]}

\* The outcomes of self.pick(input) in a state: the Gen afterwards, the
\* bound passed to gen (none: Stop), the index returned, the panic if any.
pick(path, cursor, input) ==
    LET len == Len(input)
        bound == wrapping_sub1(len)
        r == gen_ret(path, cursor, bound)
        called == [v |-> gen_v(path, cursor, bound), p |-> gen_p(cursor),
                   bound |-> bound, r |-> r,
                   panic |-> IF r < len THEN NoPanic ELSE IndexOutOfBounds]
        checked == [v |-> path, p |-> cursor, bound |-> Stop, r |-> Stop,
                    panic |-> SubOverflow]
    IN  IF len = 0 THEN {checked, called} ELSE {called}

Deref(input, refs) == [k \in 1..Len(refs) |-> input[refs[k] + 1]]

-----------------------------------------------------------------------------
(* The sequence combinators.  Each returns a lazy iterator; the body       *)
(* collects it (`.collect::<Vec<_>>()`), one next() per step.              *)

\* mutant of gen_fixed_by: the iterator takes one element more
gen_fixed_by_extra(fixed) == [Locals EXCEPT !.n = fixed + 1]

\* std::iter::repeat_with(move || f(self)).take(fixed)
gen_fixed_by(fixed) == [Locals EXCEPT !.n = fixed]

\* mutant of take_more: the iterator stops one element early
take_more_early(l) == l.n > 1

\* Take::next: the iterator still yields
take_more(l) == l.n # 0

\* a call of the Gen made by a combinator or by its closure
Called(path, cursor, bound, r) ==
    /\ v' = path
    /\ p' = cursor
    /\ last' = [op |-> "gen", bound |-> bound, r |-> r]
    /\ vals' = Append(vals, r)
    /\ UNCHANGED started

\* the thread panics; the Gen is as the panicking call left it
Panic(o) ==
    /\ pc' = "panicked"
    /\ loc' = [loc EXCEPT !.panic = o.panic]
    /\ v' = o.v
    /\ p' = o.p
    /\ IF o.bound = Stop
         THEN UNCHANGED <<last, vals>>
         ELSE /\ last' = [op |-> "gen", bound |-> o.bound, r |-> o.r]
              /\ vals' = Append(vals, o.r)
    /\ UNCHANGED <<started, test, runs>>

\* gen_bound_by: let fixed = self.gen(bound); self.gen_fixed_by(fixed, f)
gen_bound_by(bound) ==
    /\ Gen(bound)
    /\ vals' = Append(vals, last'.r)
    /\ loc' = gen_fixed_by(last'.r)
    /\ pc' = "iter"
    /\ UNCHANGED <<test, runs>>

\* gen_elts(len_bound, elt_bound)
EltsCall ==
    /\ pc = "body"
    /\ test.kind = "elts"
    /\ gen_bound_by(test.len_bound)

\* one next() of gen_elts' iterator: |g| g.gen(elt_bound)
EltsNext ==
    /\ pc = "iter"
    /\ test.kind = "elts"
    /\ take_more(loc)
    /\ Gen(test.elt_bound)
    /\ vals' = Append(vals, last'.r)
    /\ loc' = [loc EXCEPT !.n = @ - 1, !.out = Append(@, last'.r)]
    /\ UNCHANGED <<pc, test, runs>>

\* gen_bound_comb(bound, input)
gen_bound_comb(bound) == gen_bound_by(bound)

\* mutant of comb_bound: the length bound is one short
comb_bound_short(input) == Len(input) - 1

\* gen_comb(input): let bound = input.len()
comb_bound(input) == Len(input)

\* gen_comb(input): self.gen_bound_comb(bound, input)
CombCall ==
    /\ pc = "body"
    /\ test.kind = "comb"
    /\ gen_bound_comb(comb_bound(test.input))

BoundCombCall ==
    /\ pc = "body"
    /\ test.kind = "bound_comb"
    /\ gen_bound_comb(test.bound)

\* gen_fixed_comb(fixed, input): no call of the Gen before the first next()
FixedCombCall ==
    /\ pc = "body"
    /\ test.kind = "fixed_comb"
    /\ loc' = gen_fixed_by(test.fixed)
    /\ pc' = "iter"
    /\ UNCHANGED <<started, v, p, last, test, vals, runs>>

CombKinds == {"comb", "bound_comb", "fixed_comb"}

\* one next() of a combination iterator: |g| g.pick(input)
CombNext ==
    /\ pc = "iter"
    /\ test.kind \in CombKinds
    /\ take_more(loc)
    /\ \E o \in pick(v, p, test.input) :
          IF o.panic # NoPanic THEN Panic(o)
          ELSE /\ Called(o.v, o.p, o.bound, o.r)
               /\ loc' = [loc EXCEPT !.n = @ - 1, !.out = Append(@, o.r)]
               /\ UNCHANGED <<pc, test, runs>>

\* a body that is one call `gen.pick(&input)`
PickCall ==
    /\ pc = "body"
    /\ test.kind = "pick"
    /\ \E o \in pick(v, p, test.input) :
          IF o.panic # NoPanic THEN Panic(o)
          ELSE /\ Called(o.v, o.p, o.bound, o.r)
               /\ loc' = [Locals EXCEPT !.out = <<o.r>>]
               /\ pc' = "iter"
               /\ UNCHANGED <<test, runs>>

\* mutant of remove: Vec::swap_remove, the last element fills the hole
remove_swap(xs, k) ==
    [elt |-> xs[k + 1],
     rest |-> IF k + 1 = Len(xs) THEN SubSeq(xs, 1, Len(xs) - 1)
              ELSE [SubSeq(xs, 1, Len(xs) - 1) EXCEPT ![k + 1] = xs[Len(xs)]]]

\* mutant of remove: returns element k but drops the last element
remove_last(xs, k) ==
    [elt |-> xs[k + 1], rest |-> SubSeq(xs, 1, Len(xs) - 1)]

\* Vec::remove(k): the element removed and the vector left
remove(xs, k) ==
    [elt |-> xs[k + 1],
     rest |-> SubSeq(xs, 1, k) \o SubSeq(xs, k + 2, Len(xs))]

\* let mut idxs = (0..input.len()).collect::<Vec<_>>()
perm_idxs(input) == [k \in 1..Len(input) |-> k - 1]

\* gen_perm(input)
PermCall ==
    /\ pc = "body"
    /\ test.kind = "perm"
    /\ loc' = [gen_fixed_by(Len(test.input)) EXCEPT !.idxs = perm_idxs(test.input)]
    /\ pc' = "iter"
    /\ UNCHANGED <<started, v, p, last, test, vals, runs>>

\* The outcomes of gen_perm's closure in a state:
\*     &input[idxs.remove(g.gen(idxs.len() - 1))]
perm_pick(path, cursor, idxs, input) ==
    LET len == Len(idxs)
        bound == wrapping_sub1(len)
        r == gen_ret(path, cursor, bound)
        called == [v |-> gen_v(path, cursor, bound), p |-> gen_p(cursor),
                   bound |-> bound, r |-> r]
        removed == [called EXCEPT !.r = r] @@
                   [panic |-> IF r < len THEN NoPanic ELSE RemoveOutOfBounds,
                    elt |-> IF r < len THEN remove(idxs, r).elt ELSE Stop,
                    rest |-> IF r < len THEN remove(idxs, r).rest ELSE idxs]
        checked == [v |-> path, p |-> cursor, bound |-> Stop, r |-> Stop,
                    panic |-> SubOverflow, elt |-> Stop, rest |-> idxs]
    IN  IF len = 0 THEN {checked, removed} ELSE {removed}

\* one next() of gen_perm's iterator
PermNext ==
    /\ pc = "iter"
    /\ test.kind = "perm"
    /\ take_more(loc)
    /\ \E o \in perm_pick(v, p, loc.idxs, test.input) :
          IF o.panic # NoPanic THEN Panic(o)
          ELSE /\ Called(o.v, o.p, o.bound, o.r)
               /\ loc' = [loc EXCEPT !.n = @ - 1, !.idxs = o.rest,
                                     !.out = Append(@, o.elt)]
               /\ UNCHANGED <<pc, test, runs>>

\* gen_subset(input): (0..input.len()).filter_map(...)
SubsetCall ==
    /\ pc = "body"
    /\ test.kind = "subset"
    /\ loc' = Locals
    /\ pc' = "iter"
    /\ UNCHANGED <<started, v, p, last, test, vals, runs>>

\* one element of the range through gen_subset's closure:
\*     if self.flip() { Some(&input[i]) } else { None }
SubsetNext ==
    /\ pc = "iter"
    /\ test.kind = "subset"
    /\ loc.i < Len(test.input)
    /\ Gen(1)
    /\ vals' = Append(vals, last'.r)
    /\ loc' = [loc EXCEPT !.i = @ + 1,
                          !.out = IF flip_ret(v, p) THEN Append(@, loc.i) ELSE @]
    /\ UNCHANGED <<pc, test, runs>>

\* the iterator is exhausted: collect returns and the body ends
IterEnd ==
    /\ pc = "iter"
    /\ IF test.kind = "subset" THEN loc.i >= Len(test.input) ELSE ~take_more(loc)
    /\ RunEnd(loc.out)

-----------------------------------------------------------------------------
(* The tests: the loops of the crate's tests over small parameters.        *)

\* gen_elts: the largest len_bound and elt_bound
MaxLen == 3
MaxElt == 4
\* gen_perm, gen_subset: the longest input
MaxInput == 5
\* gen_comb, pick: the longest input; gen_bound_comb, gen_fixed_comb: the
\* largest bound
MaxCombInput == 4
\* gen_bound_comb, gen_fixed_comb called directly: the longest input
MaxShortInput == 2

\* n pairwise distinct elements in ascending order
Distinct(n) == [k \in 1..n |-> 10 * k]
\* n elements in which each value occurs twice in a row
Repeated(n) == [k \in 1..n |-> 10 * ((k + 1) \div 2)]

Inputs(n) == {Distinct(k) : k \in 0..n} \cup {Repeated(k) : k \in 0..n}

EltsTests ==
    {[kind |-> "elts", len_bound |-> l, elt_bound |-> e] :
        l \in 0..MaxLen, e \in 0..MaxElt}

PermTests == {[kind |-> "perm", input |-> i] : i \in Inputs(MaxInput)}

SubsetTests == {[kind |-> "subset", input |-> i] : i \in Inputs(MaxInput)}

CombTests ==
    {[kind |-> "comb", input |-> i] : i \in Inputs(MaxCombInput)}
    \cup {[kind |-> "bound_comb", bound |-> b, input |-> i] :
            b \in 0..MaxCombInput, i \in Inputs(MaxShortInput)}
    \cup {[kind |-> "fixed_comb", fixed |-> f, input |-> i] :
            f \in 0..MaxCombInput, i \in Inputs(MaxShortInput)}
    \cup {[kind |-> "pick", input |-> i] : i \in Inputs(MaxCombInput)}

NextElts == LoopDone \/ EltsCall \/ EltsNext \/ IterEnd

SpecElts == LoopInit(EltsTests) /\ [][NextElts]_vars

NextPerm == LoopDone \/ PermCall \/ PermNext \/ IterEnd

SpecPerm == LoopInit(PermTests) /\ [][NextPerm]_vars

NextSubset == LoopDone \/ SubsetCall \/ SubsetNext \/ IterEnd

SpecSubset == LoopInit(SubsetTests) /\ [][NextSubset]_vars

NextComb ==
    \/ LoopDone
    \/ CombCall
    \/ BoundCombCall
    \/ FixedCombCall
    \/ CombNext
    \/ PickCall
    \/ IterEnd

SpecComb == LoopInit(CombTests) /\ [][NextComb]_vars

-----------------------------------------------------------------------------
(* Claims. *)

\* C1: for a deterministic body with a finite choice tree, the loop runs the
\* body exactly once for each root-to-leaf path of the tree: when the loop
\* has finished, the vectors of gen return values of the runs are pairwise
\* distinct (as many runs as different vectors) and are exactly the paths.
C1_ExactlyOncePerPath ==
    pc = "finished" =>
        /\ {runs[k].vals : k \in 1..Len(runs)} = Leaves(test, <<>>)
        /\ Len(runs) = Cardinality(Leaves(test, <<>>))

\* C1 witness: a finished loop over an adaptive body (a later bound is the
\* earlier value) whose tree has several paths of different shape.
C1_Witness ==
    /\ pc = "finished"
    /\ test.rules[1] = "max"
    /\ test.rules[2] = "prev"
    /\ Len(runs) > MaxBound + 1

\* C2: every gen(bound) call returns r with 0 <= r <= bound.
C2_GenInRange ==
    last.op = "gen" => (0 <= last.r /\ last.r <= last.bound)

\* C3: the loop terminates for every body making at most MaxDepth gen calls
\* per run with bounds of at most MaxBound, and done returns true only when
\* no frame has current < bound.
C3_Terminates ==
    /\ <>(pc = "finished")
    /\ [](pc = "finished" =>
            /\ last = [op |-> "done", r |-> TRUE]
            /\ \A k \in 1..Len(v) : ~(v[k][1] < v[k][2]))

\* C3 witness: the loop has finished after a run that made MaxDepth calls
\* and left frames behind.
C3_Witness ==
    /\ pc = "finished"
    /\ test.kind = "any"
    /\ Len(v) = MaxDepth
    /\ \E k \in 1..Len(v) : v[k][1] > 0

\* C10 as stated: the first done call (started = false) returns not-terminal
\* and leaves started = true, cursor = 0 and path unchanged; on a fresh
\* enumerator no frame is recorded afterwards.
C10_FirstDoneResetsCursor ==
    [][(~started /\ last'.op = "done") =>
          /\ last'.r = FALSE
          /\ started'
          /\ p' = 0
          /\ v' = v
          /\ (last.op = "new" => v' = <<>>)]_vars

\* C10 amended: the first done call returns not-terminal, sets started and
\* leaves both path and cursor unchanged; on a fresh enumerator the cursor
\* is 0 and no frame is recorded afterwards.
C10_FirstDoneKeepsCursor ==
    [][(~started /\ last'.op = "done") =>
          /\ last'.r = FALSE
          /\ started'
          /\ p' = p
          /\ v' = v
          /\ (last.op = "new" => (p' = 0 /\ v' = <<>>))]_vars

\* C10 witness: a first done call made after gen calls has just returned
\* (any later done that returns false leaves the cursor at 0).
C10_Witness ==
    /\ started
    /\ last = [op |-> "done", r |-> FALSE]
    /\ p > 0
    /\ Len(v) = p

-----------------------------------------------------------------------------
(* Claims about the combinators. *)

RECURSIVE SumPow(_, _)
\* b^0 + b^1 + ... + b^n
SumPow(b, n) == IF n = 0 THEN 1 ELSE b ^ n + SumPow(b, n - 1)

RECURSIVE Factorial(_)
Factorial(n) == IF n = 0 THEN 1 ELSE n * Factorial(n - 1)

\* the sequences of length <= n over the set S
SeqsUpTo(S, n) == UNION {[1..k -> S] : k \in 0..n}

Outs == {runs[k].out : k \in 1..Len(runs)}

IsDistinct(input) == \A j, k \in 1..Len(input) : input[j] = input[k] => j = k

\* C4: over gen_elts(L, E) the collected sequences are exactly the sequences
\* of length <= L over [0, E], each collected in exactly one run (as many
\* runs as sequences), so the loop makes (E+1)^0 + ... + (E+1)^L runs: 156
\* for L = 3, E = 4.
C4_EltsExhaustive ==
    pc = "finished" =>
        /\ Outs = SeqsUpTo(0..test.elt_bound, test.len_bound)
        /\ Len(runs) = Cardinality(Outs)
        /\ Len(runs) = SumPow(test.elt_bound + 1, test.len_bound)
        /\ (test.len_bound = 3 /\ test.elt_bound = 4 => Len(runs) = 156)

\* C4 witness: the loop of test_elts has finished.
C4_Witness ==
    /\ pc = "finished"
    /\ test = [kind |-> "elts", len_bound |-> 3, elt_bound |-> 4]
    /\ Len(runs) = 156

\* the orderings of the n input positions
Orderings(n) ==
    {f \in [1..n -> 0..(n - 1)] : \A j, k \in 1..n : f[j] = f[k] => j = k}

\* C5: over gen_perm(input) the loop makes n! runs, every run collects every
\* input element exactly once, and each ordering is collected in exactly
\* one run; for distinct elements the collected element sequences are
\* pairwise different.  120 runs for n = 5.
C5_PermExhaustive ==
    pc = "finished" =>
        LET n == Len(test.input) IN
        /\ Len(runs) = Factorial(n)
        /\ \A k \in 1..Len(runs) : runs[k].out \in Orderings(n)
        /\ Outs = Orderings(n)
        /\ IsDistinct(test.input) =>
              /\ Cardinality({Deref(test.input, o) : o \in Outs}) = Factorial(n)
              /\ \A o \in Outs : \A e \in 1..n :
                    Cardinality({k \in 1..n : Deref(test.input, o)[k] = test.input[e]}) = 1
        /\ (n = 5 => Len(runs) = 120)

\* C5 witness: the loop of test_perm (5 distinct elements) has finished.
C5_Witness ==
    /\ pc = "finished"
    /\ test = [kind |-> "perm", input |-> Distinct(5)]
    /\ Len(runs) = 120
    /\ runs[120].out = <<4, 3, 2, 1, 0>>

\* the positions a pattern of flips includes, in input order
RECURSIVE Included(_, _)
Included(flips, k) ==
    IF k > Len(flips) THEN <<>>
    ELSE (IF flips[k] = 1 THEN <<k - 1>> ELSE <<>>) \o Included(flips, k + 1)

\* C6: over gen_subset(input) the loop makes 2^n runs and each of the 2^n
\* inclusion patterns is collected in exactly one run, the included
\* elements in input order.  32 runs for n = 5.
C6_SubsetExhaustive ==
    pc = "finished" =>
        LET n == Len(test.input) IN
        /\ Len(runs) = 2 ^ n
        /\ {runs[k].vals : k \in 1..Len(runs)} = [1..n -> {0, 1}]
        /\ \A k \in 1..Len(runs) : runs[k].out = Included(runs[k].vals, 1)
        /\ <<>> \in Outs
        /\ [k \in 1..n |-> k - 1] \in Outs
        /\ (n = 5 => Len(runs) = 32)

\* C6 witness: the loop of test_subset has finished; its last run took all.
C6_Witness ==
    /\ pc = "finished"
    /\ test = [kind |-> "subset", input |-> Distinct(5)]
    /\ Len(runs) = 32
    /\ Deref(test.input, runs[32].out) = test.input

\* C7: over gen_comb(input) with a non-empty input of length n the length
\* bound is n, the loop never panics, every sequence of length 0..n of
\* elements drawn from input (by position, repetition allowed) is collected
\* in exactly one run, and the loop makes n^0 + ... + n^n runs.
C7_CombExhaustive ==
    (test.kind = "comb" /\ Len(test.input) >= 1) =>
        LET n == Len(test.input) IN
        /\ pc # "panicked"
        /\ (v # <<>> => v[1][2] = n)
        /\ pc = "finished" =>
              /\ Outs = SeqsUpTo(0..(n - 1), n)
              /\ Len(runs) = Cardinality(Outs)
              /\ Len(runs) = SumPow(n, n)
              /\ IsDistinct(test.input) =>
                    Cardinality({Deref(test.input, o) : o \in Outs}) = Len(runs)

\* C7 witness: a loop over gen_comb of the largest input has finished.
C7_Witness ==
    /\ pc = "finished"
    /\ test = [kind |-> "comb", input |-> Distinct(MaxCombInput)]
    /\ Len(runs) = SumPow(MaxCombInput, MaxCombInput)

EmptyInput == test.kind \in CombKinds \cup {"pick"} /\ test.input = <<>>

\* C9 as stated: with an empty input, pick and the combination combinators
\* never complete normally, never return an element and never produce a
\* sequence for the run.
C9_EmptyInputNeverCompletes ==
    EmptyInput => (pc \notin {"iter", "finished"} /\ runs = <<>>)

\* C9 amended: with an empty input, pick never returns (it panics: on the
\* subtraction when the build checks overflow, else on the index, after
\* gen(usize::MAX) has been recorded); a combination combinator returns
\* normally and fails exactly when an element is demanded of its sequence:
\* a sequence of length 0 is produced normally (gen_comb: one run, the empty
\* sequence, then the loop finishes), the first next() of a sequence of
\* length >= 1 panics, and no element is ever returned.
C9_EmptyInputFailsOnDemand ==
    /\ [](EmptyInput =>
            /\ loc.out = <<>>
            /\ \A k \in 1..Len(runs) : runs[k].out = <<>>
            /\ (test.kind = "pick" => pc \in {"head", "body", "panicked"} /\ runs = <<>>)
            /\ (test.kind = "comb" => pc # "panicked" /\ Len(runs) <= 1)
            /\ (test.kind = "comb" /\ pc = "finished" => Len(runs) = 1)
            /\ (test.kind = "bound_comb" /\ test.bound >= 1 => pc # "finished" /\ Len(runs) <= 1)
            /\ (test.kind = "fixed_comb" /\ test.fixed >= 1 => pc # "finished" /\ runs = <<>>)
            /\ (pc = "panicked" =>
                  \/ loc.panic = SubOverflow
                  \/ loc.panic = IndexOutOfBounds /\ last.op = "gen"
                       /\ last.bound = UsizeMax /\ v[p][2] = UsizeMax))
    /\ [][(EmptyInput /\ ((pc = "iter" /\ loc.n > 0) \/ (pc = "body" /\ test.kind = "pick")))
             => /\ pc' = "panicked"
                /\ (loc'.panic = SubOverflow => UNCHANGED <<started, v, p, last>>)]_vars

\* C9 witness: gen_bound_comb over an empty input produced the empty
\* sequence in its first run and panicked in the second, in a build that
\* wraps the subtraction.
C9_Witness ==
    /\ EmptyInput
    /\ test.kind = "bound_comb"
    /\ Len(runs) = 1
    /\ pc = "panicked"
    /\ loc.panic = IndexOutOfBounds

-----------------------------------------------------------------------------
(* Claims about the effect of single calls, over any sequence of calls. *)

\* C11: a done call made when started = true and some frame has
\* current < bound returns not-terminal; with i the largest index whose
\* frame has current < bound, frame i's current grows by 1 and its bound is
\* unchanged, the frames after i are discarded, the frames before i are
\* unchanged, and cursor = 0.
C11_DoneAdvances ==
    [][(/\ last'.op = "done"
        /\ started
        /\ \E k \in 1..Len(v) : v[k][1] < v[k][2]) =>
          LET i == CHOOSE k \in 1..Len(v) :
                      /\ v[k][1] < v[k][2]
                      /\ \A j \in (k + 1)..Len(v) : ~(v[j][1] < v[j][2])
          IN  /\ last'.r = FALSE
              /\ started'
              /\ Len(v') = i
              /\ v'[i] = <<v[i][1] + 1, v[i][2]>>
              /\ \A j \in 1..(i - 1) : v'[j] = v[j]
              /\ p' = 0]_vars

\* C11 witness: done has just advanced a frame that is not the first and
\* left an exhausted frame before it.
C11_Witness ==
    /\ last = [op |-> "done", r |-> FALSE]
    /\ p = 0
    /\ Len(v) = 2
    /\ v[1][1] = v[1][2]
    /\ v[2][1] = 2

\* C12: gen(b) with cursor = c appends the frame (0, b) if c = len(path) and
\* otherwise overwrites only the bound of frame c with b; cursor becomes
\* c + 1; it returns frame c's current; it changes no current of an existing
\* frame, no other frame and not started.
C12_GenEffect ==
    [][last'.op = "gen" =>
          LET c == p
              b == last'.bound
          IN  /\ c <= Len(v)
              /\ (c = Len(v) => v' = Append(v, <<0, b>>))
              /\ (c < Len(v) =>
                    /\ Len(v') = Len(v)
                    /\ v'[c + 1] = <<v[c + 1][1], b>>)
              /\ \A j \in 1..Len(v) : j # c + 1 => v'[j] = v[j]
              /\ p' = c + 1
              /\ last'.r = v'[c + 1][1]
              /\ v'[c + 1][2] = b
              /\ started' = started]_vars

\* C12 witness: gen has just overwritten the bound of a frame left by an
\* earlier run, which holds a current above 0, and frames follow it.
C12_Witness ==
    /\ last.op = "gen"
    /\ last.r > 0
    /\ p < Len(v)
    /\ v[p][2] # v[p][1]

\* C13: cursor <= len(path) in every state.
C13_CursorWithinPath == p <= Len(v)

\* C13 witness: the cursor stands inside a path left by a longer run.
C13_Witness ==
    /\ started
    /\ 0 < p
    /\ p < Len(v)
    /\ Len(v) = MaxDepth

\* C14: every frame satisfies current <= bound in every state.
C14_CurrentWithinBound == \A k \in 1..Len(v) : v[k][1] <= v[k][2]

\* C18: every call gen(0) returns 0.
C18_GenZeroReturnsZero == (last.op = "gen" /\ last.bound = 0) => last.r = 0

\* C19: a done call that returns true leaves started, path and cursor
\* unchanged; a done call that follows it with no gen call in between returns
\* true as well; done reports exhaustion by its result and is never refused.
C19_TerminalDoneStable ==
    /\ [](ENABLED CallDone)
    /\ [][/\ (last'.op = "done" /\ last'.r = TRUE) =>
                /\ started
                /\ UNCHANGED <<started, v, p>>
          /\ (last = [op |-> "done", r |-> TRUE] /\ last'.op = "done") =>
                last'.r = TRUE]_vars

\* C19 witness: done has returned true on a path of full depth with the
\* cursor at its end, and path and cursor are still there.
C19_Witness ==
    /\ last = [op |-> "done", r |-> TRUE]
    /\ Len(v) = MaxDepth
    /\ p = MaxDepth
    /\ \E k \in 1..Len(v) : v[k][1] > 0

-----------------------------------------------------------------------------
(* Claims about the order of the runs of a deterministic body. *)

\* the first position at which two vectors differ (one past the shorter
\* vector if it is a prefix of the other)
FirstDiff(a, b) ==
    Min({i \in 1..(Min({Len(a), Len(b)}) + 1) :
            i > Len(a) \/ i > Len(b) \/ a[i] # b[i]})

\* a is strictly below b in lexicographic order
LexLess(a, b) ==
    /\ a # b
    /\ LET i == FirstDiff(a, b)
       IN  i > Len(a) \/ (i <= Len(b) /\ a[i] < b[i])

\* C15: the first run receives 0 from every gen call; whenever a run has
\* been recorded (runs changes only then), the vector of gen return values
\* of each later run is lexicographically above that of the
\* run before it, equal to it before the incremented position and one
\* larger there; over the whole enumeration, at a choice point with bound 1
\* (a flip) the run that receives 0 (false) comes before the run that
\* receives 1 (true).
C15_OdometerOrder ==
    /\ runs # <<>> => \A i \in 1..Len(runs[1].vals) : runs[1].vals[i] = 0
    /\ pc # "body" =>
          \A k \in 2..Len(runs) :
              LET a == runs[k - 1].vals
                  b == runs[k].vals
                  i == FirstDiff(a, b)
              IN  /\ LexLess(a, b)
                  /\ i <= Len(a)
                  /\ i <= Len(b)
                  /\ b[i] = a[i] + 1
    /\ pc = "finished" =>
          \A j, k \in 1..Len(runs) :
              \A i \in 1..Min({Len(runs[j].vals), Len(runs[k].vals)}) :
                  (/\ runs[j].vals[i] = 0
                   /\ runs[k].vals[i] = 1
                   /\ SubSeq(runs[j].vals, 1, i - 1) = SubSeq(runs[k].vals, 1, i - 1)
                   /\ BodyBound(test, SubSeq(runs[j].vals, 1, i - 1)) = 1) => j < k

\* C15 witness: a finished loop in which some run followed its predecessor
\* by a carry (the incremented position is not the predecessor's last) at a
\* choice point with bound 1.
C15_Witness ==
    /\ pc = "finished"
    /\ \E k \in 2..Len(runs) :
          LET a == runs[k - 1].vals
              i == FirstDiff(a, runs[k].vals)
          IN  /\ i < Len(a)
              /\ BodyBound(test, SubSeq(a, 1, i - 1)) = 1
              /\ runs[k].vals[i] = 1

\* C20: at the end of every run of a deterministic body cursor = len(path)
\* and the frames of path are exactly the choice points of that run, each
\* holding the value and the bound of its gen call; so the frame the next
\* done increments is a choice point of the run just finished.
C20_PathIsLastRun ==
    /\ [](pc = "head" =>
            /\ p = Len(v)
            /\ Len(vals) = Len(v)
            /\ \A i \in 1..Len(v) :
                  /\ v[i][1] = vals[i]
                  /\ v[i][2] = BodyBound(test, SubSeq(vals, 1, i - 1)))
    /\ [][(pc = "head" /\ pc' = "body" /\ started) =>
            \E i \in 1..Len(vals) :
                /\ Len(v') = i
                /\ v'[i][1] = vals[i] + 1
                /\ v'[i][2] = BodyBound(test, SubSeq(vals, 1, i - 1))]_vars

\* C20 witness: a run has ended that made fewer gen calls than the run
\* before it, and the path holds just its frames.
C20_Witness ==
    /\ pc = "head"
    /\ Len(runs) >= 2
    /\ Len(runs[Len(runs)].vals) < Len(runs[Len(runs) - 1].vals)
    /\ Len(v) = Len(runs[Len(runs)].vals)
    /\ p > 0

-----------------------------------------------------------------------------
(* Claims about the order and the choice points of the combinators. *)

\* the elements of xs are strictly ascending
Ascending(xs) == \A j, k \in 1..Len(xs) : j < k => xs[j] < xs[k]

\* the input positions in reverse order
Reversed(n) == [k \in 1..n |-> n - k]

\* C16: step k (0-based) of a gen_perm run over n elements calls
\* gen(n - k - 1) on the n - k remaining index positions, which are in
\* ascending order, and yields the position its value selects among them;
\* the first run yields the input order, the last run the reversed input,
\* and, whenever a run has ended, each run's sequence is lexicographically
\* above the previous run's (as positions, and as elements when the input
\* is distinct ascending).
C16_PermLexOrder ==
    /\ [](/\ pc = "iter" =>
                /\ Len(loc.idxs) = Len(test.input) - Len(loc.out)
                /\ Ascending(loc.idxs)
          /\ runs # <<>> => runs[1].out = perm_idxs(test.input)
          /\ pc = "finished" => runs[Len(runs)].out = Reversed(Len(test.input))
          /\ pc = "head" =>
                \A k \in 2..Len(runs) :
                    /\ LexLess(runs[k - 1].out, runs[k].out)
                    /\ (IsDistinct(test.input) /\ Ascending(test.input)) =>
                          LexLess(Deref(test.input, runs[k - 1].out),
                                  Deref(test.input, runs[k].out)))
    /\ [][(pc = "iter" /\ Len(loc'.out) = Len(loc.out) + 1) =>
            LET n == Len(test.input)
                k == Len(loc.out)
            IN  /\ last'.op = "gen"
                /\ last'.bound = n - k - 1
                /\ last'.r <= last'.bound
                /\ loc'.out[k + 1] = loc.idxs[last'.r + 1]
                /\ p' = k + 1]_vars

\* C16 witness: the loop over four distinct ascending elements has finished
\* with the reversed input as its last run.
C16_Witness ==
    /\ pc = "finished"
    /\ test = [kind |-> "perm", input |-> Distinct(4)]
    /\ Len(runs) = 24
    /\ runs[1].out = <<0, 1, 2, 3>>
    /\ runs[2].out = <<0, 1, 3, 2>>
    /\ runs[24].out = <<3, 2, 1, 0>>

\* C17: gen_elts(L, E) makes exactly one gen(L) call when it is called,
\* before its closure has run, and the value l returned is the length of
\* the sequence; the iterator invokes the closure, one gen(E) call each,
\* exactly l times, appending the values in position order; so a run visits
\* 1 + l choice points, the first with bound L and the l others with bound E.
C17_LengthIsFirstChoice ==
    /\ [](/\ pc = "iter" =>
                /\ Len(vals) = 1 + Len(loc.out)
                /\ loc.n + Len(loc.out) = vals[1]
                /\ loc.out = Tail(vals)
                /\ p = Len(vals)
          /\ \A k \in 1..Len(runs) :
                /\ Len(runs[k].vals) = 1 + runs[k].vals[1]
                /\ runs[k].out = Tail(runs[k].vals)
          /\ (pc = "head" /\ runs # <<>>) =>
                /\ p = 1 + vals[1]
                /\ Len(v) = p
                /\ v[1][2] = test.len_bound
                /\ \A i \in 2..Len(v) : v[i][2] = test.elt_bound)
    /\ [][/\ (pc = "body" /\ pc' = "iter") =>
                /\ last'.op = "gen"
                /\ last'.bound = test.len_bound
                /\ vals' = <<last'.r>>
                /\ p' = 1
                /\ loc'.n = last'.r
                /\ loc'.out = <<>>
          /\ (pc = "iter" /\ pc' = "iter") =>
                /\ loc.n > 0
                /\ last'.op = "gen"
                /\ last'.bound = test.elt_bound
                /\ loc'.out = Append(loc.out, last'.r)
                /\ loc'.n = loc.n - 1
                /\ p' = p + 1
          /\ (pc = "iter" /\ pc' = "head") =>
                /\ loc.n = 0
                /\ Len(loc.out) = vals[1]]_vars

\* C17 witness: a run of gen_elts(3, 4) has ended whose length choice was 2,
\* after runs of other lengths.
C17_Witness ==
    /\ pc = "head"
    /\ test = [kind |-> "elts", len_bound |-> 3, elt_bound |-> 4]
    /\ Len(runs) > 6
    /\ runs[Len(runs)].vals[1] = 2
    /\ runs[Len(runs)].out = <<1, 3>>
    /\ p = 3

=============================================================================
